---- MODULE Spec2Model ----
(***************************************************************************)
(* Model of the LEG-Invoicing MQTT collector                               *)
(* (src/leg-invoicing-ui/collector.py).                                    *)
(*                                                                         *)
(* Two threads share one EnergyCollector object without any lock:          *)
(*   - the paho network thread started by client.loop_start(), which runs  *)
(*     on_message -> process_message for every telegram, and               *)
(*   - the main thread, which sleeps COLLECTOR_INTERVAL seconds and then   *)
(*     runs store_interval_data.                                           *)
(* Threads switch between bytecodes; a step of the model is the largest    *)
(* piece of a handler that touches the shared dict self.current_interval   *)
(* at most once (self.previous_values belongs to the network thread        *)
(* alone).  The shutdown on KeyboardInterrupt is not part of the model.    *)
(* Energy is counted in integer units of 0.01 kWh, money in ct; tariffs    *)
(* and values are exact rationals <<numerator, denominator>>.              *)
(***************************************************************************)
EXTENDS Integers, Sequences, FiniteSets, TLC

\* ------------------------------------------------------------------------
\* Bounds of the model
\* ------------------------------------------------------------------------
\* Largest total production / consumption given to the tariff function.
MaxEnergy == 10
\* Number of telegrams the broker delivers in one run.
MaxTelegrams == 4
\* Number of timer expiries (calls of store_interval_data) in one run.
MaxFlushes == 2

\* ------------------------------------------------------------------------
\* Exact rational arithmetic (the code computes in Python floats; the
\* claims are stated in exact arithmetic).
\* ------------------------------------------------------------------------
RECURSIVE GCD(_, _)
GCD(a, b) == IF b = 0 THEN a ELSE GCD(b, a % b)

Abs(x) == IF x < 0 THEN -x ELSE x

\* The outcome of a division by zero (the exception Python raises), kept as
\* the one pair with denominator 0; it propagates through every operation.
ZeroDivisionError == <<0, 0>>

IsErr(a) == a = ZeroDivisionError

\* The rational n/d in lowest terms with a positive denominator.
Rat(n, d) ==
    IF d = 0 THEN ZeroDivisionError
    ELSE LET g == GCD(Abs(n), Abs(d))
             s == IF d < 0 THEN -1 ELSE 1
         IN  <<(s * n) \div g, (s * d) \div g>>

R(n) == <<n, 1>>

RAdd(a, b) ==
    IF IsErr(a) \/ IsErr(b) THEN ZeroDivisionError
    ELSE Rat(a[1] * b[2] + b[1] * a[2], a[2] * b[2])

RSub(a, b) ==
    IF IsErr(a) \/ IsErr(b) THEN ZeroDivisionError
    ELSE Rat(a[1] * b[2] - b[1] * a[2], a[2] * b[2])

RMul(a, b) ==
    IF IsErr(a) \/ IsErr(b) THEN ZeroDivisionError
    ELSE Rat(a[1] * b[1], a[2] * b[2])

RDiv(a, b) ==
    IF IsErr(a) \/ IsErr(b) THEN ZeroDivisionError
    ELSE Rat(a[1] * b[2], a[2] * b[1])

\* a > b; an exception is never greater than anything (the comparison is
\* not reached).
RGt(a, b) ==
    IF IsErr(a) \/ IsErr(b) THEN FALSE
    ELSE a[1] * b[2] > b[1] * a[2]

RLt(a, b) == RGt(b, a)

\* ------------------------------------------------------------------------
\* Configuration (config.yaml, read at import time)
\* ------------------------------------------------------------------------
\* config["tariffs"]: the default policy, in ct/kWh.
DEFAULT_TARIFFS == [p_pv |-> R(20), p_grid_con |-> R(30), p_grid_del |-> R(6)]

\* Policies the tariffs file may hold when it is read.
Policies ==
    { [p_pv |-> R(20), p_grid_con |-> R(30), p_grid_del |-> R(6)],
      [p_pv |-> R(28), p_grid_con |-> R(30), p_grid_del |-> R(6)],
      [p_pv |-> R(35), p_grid_con |-> R(30), p_grid_del |-> R(6)],
      [p_pv |-> R(5),  p_grid_con |-> R(30), p_grid_del |-> R(6)],
      [p_pv |-> R(12), p_grid_con |-> R(25), p_grid_del |-> R(12)] }

\* ------------------------------------------------------------------------
\* EnergyCollector.calculate_breakeven_tariffs
\* ------------------------------------------------------------------------
\* The function with the I == 0 guard removed (a plausible slip): the
\* surplus branch then divides by I = 0.
calculate_breakeven_tariffs_noguard(E, I, base_tariffs) ==
    LET p_pv_policy == base_tariffs.p_pv
        p_grid_con  == base_tariffs.p_grid_con
        p_grid_del  == base_tariffs.p_grid_del
        ratio       == RDiv(R(E), R(I))
        p_con_calc  == RAdd(p_grid_del, RMul(ratio, RSub(p_pv_policy, p_grid_del)))
    IN  IF E >= I
        THEN IF RGt(p_con_calc, p_grid_con)
             THEN [p_con |-> p_grid_con,
                   p_pv |-> RDiv(RAdd(RMul(R(I), p_grid_con),
                                      RMul(R(E - I), p_grid_del)), R(E)),
                   p_grid_con |-> p_grid_con, p_grid_del |-> p_grid_del]
             ELSE [p_con |-> p_con_calc, p_pv |-> p_pv_policy,
                   p_grid_con |-> p_grid_con, p_grid_del |-> p_grid_del]
        ELSE [p_con |-> RAdd(p_grid_con, RMul(ratio, RSub(p_pv_policy, p_grid_con))),
              p_pv |-> p_pv_policy,
              p_grid_con |-> p_grid_con, p_grid_del |-> p_grid_del]

\* The function with the price cap of the surplus regime left out.
calculate_breakeven_tariffs_nocap(E, I, base_tariffs) ==
    LET p_pv_policy == base_tariffs.p_pv
        p_grid_con  == base_tariffs.p_grid_con
        p_grid_del  == base_tariffs.p_grid_del
        ratio       == RDiv(R(E), R(I))
    IN  IF I = 0
        THEN [p_con |-> p_grid_con, p_pv |-> p_pv_policy,
              p_grid_con |-> p_grid_con, p_grid_del |-> p_grid_del]
        ELSE IF E >= I
        THEN [p_con |-> RAdd(p_grid_del, RMul(ratio, RSub(p_pv_policy, p_grid_del))),
              p_pv |-> p_pv_policy,
              p_grid_con |-> p_grid_con, p_grid_del |-> p_grid_del]
        ELSE [p_con |-> RAdd(p_grid_con, RMul(ratio, RSub(p_pv_policy, p_grid_con))),
              p_pv |-> p_pv_policy,
              p_grid_con |-> p_grid_con, p_grid_del |-> p_grid_del]

\* The function with the deficit formula anchored at the export price
\* instead of the import price.
calculate_breakeven_tariffs_deficit_del(E, I, base_tariffs) ==
    LET p_pv_policy == base_tariffs.p_pv
        p_grid_con  == base_tariffs.p_grid_con
        p_grid_del  == base_tariffs.p_grid_del
        ratio       == RDiv(R(E), R(I))
        p_con_calc  == RAdd(p_grid_del, RMul(ratio, RSub(p_pv_policy, p_grid_del)))
    IN  IF I = 0
        THEN [p_con |-> p_grid_con, p_pv |-> p_pv_policy,
              p_grid_con |-> p_grid_con, p_grid_del |-> p_grid_del]
        ELSE IF E >= I
        THEN IF RGt(p_con_calc, p_grid_con)
             THEN [p_con |-> p_grid_con,
                   p_pv |-> RDiv(RAdd(RMul(R(I), p_grid_con),
                                      RMul(R(E - I), p_grid_del)), R(E)),
                   p_grid_con |-> p_grid_con, p_grid_del |-> p_grid_del]
             ELSE [p_con |-> p_con_calc, p_pv |-> p_pv_policy,
                   p_grid_con |-> p_grid_con, p_grid_del |-> p_grid_del]
        ELSE [p_con |-> RAdd(p_grid_del, RMul(ratio, RSub(p_pv_policy, p_grid_del))),
              p_pv |-> p_pv_policy,
              p_grid_con |-> p_grid_con, p_grid_del |-> p_grid_del]

\* collector.py lines 83-148.  E = total production, I = total consumption
\* (integer energy units), base_tariffs = the policy.  The result is the
\* tariffs dict: the policy copied, with p_con added and p_pv overwritten.
calculate_breakeven_tariffs(E, I, base_tariffs) ==
    LET p_pv_policy == base_tariffs.p_pv
        p_grid_con  == base_tariffs.p_grid_con
        p_grid_del  == base_tariffs.p_grid_del
        ratio       == RDiv(R(E), R(I))
        p_con_calc  == RAdd(p_grid_del, RMul(ratio, RSub(p_pv_policy, p_grid_del)))
    IN  IF I = 0
        THEN \* no consumption: policy defaults
             [p_con |-> p_grid_con, p_pv |-> p_pv_policy,
              p_grid_con |-> p_grid_con, p_grid_del |-> p_grid_del]
        ELSE IF E >= I
        THEN \* surplus
             IF RGt(p_con_calc, p_grid_con)
             THEN [p_con |-> p_grid_con,
                   p_pv |-> RDiv(RAdd(RMul(R(I), p_grid_con),
                                      RMul(R(E - I), p_grid_del)), R(E)),
                   p_grid_con |-> p_grid_con, p_grid_del |-> p_grid_del]
             ELSE [p_con |-> p_con_calc, p_pv |-> p_pv_policy,
                   p_grid_con |-> p_grid_con, p_grid_del |-> p_grid_del]
        ELSE \* deficit
             [p_con |-> RAdd(p_grid_con, RMul(ratio, RSub(p_pv_policy, p_grid_con))),
              p_pv |-> p_pv_policy,
              p_grid_con |-> p_grid_con, p_grid_del |-> p_grid_del]

\* The policy dict after a call that stores its results into the argument
\* itself (tariffs = base_tariffs, no copy).
PolicyAfter_alias(E, I, base_tariffs) ==
    [base_tariffs EXCEPT !.p_pv = calculate_breakeven_tariffs(E, I, base_tariffs).p_pv]

\* The dict passed as base_tariffs after the call: lines 104-106 read it,
\* line 108 copies it, and every store of lines 112-143 goes to the copy.
PolicyAfter(E, I, base_tariffs) == base_tariffs

\* ------------------------------------------------------------------------
\* State
\* ------------------------------------------------------------------------
VARIABLES
    previous_values,   \* self.previous_values: mac -> [Ei, Eo], the baselines
    current_interval,  \* self.current_interval: the dict mac -> entry, as the
                       \* sequence of its entries in insertion order
    tpc,               \* paho network thread: where it is in process_message
    tloc,              \* its locals (mac, house_id, ei, eo, delta_ei, delta_eo)
    fpc,               \* main thread: where it is in store_interval_data
    floc,              \* its locals (totals, dict iterator, tariffs, points)
    writes,            \* the batches the sink has accepted, oldest first
    crashed,           \* "no", or the exception that ended the main thread
    ntel,              \* telegrams delivered so far
    nflush,            \* timer expiries so far (interleaved runs)
    accepted,          \* history: per mac, the sum of the deltas that passed
                       \* the plausibility check, <<import, export>>
    last,              \* history: the latest telegram's topic, the baseline
                       \* it found (<<>> if none) and the way it left the
                       \* callback
    tin,               \* tariff harness: the arguments (E, I, policy) of a call
    tout               \* tariff harness: <<>> before the call, <<tariffs>> after

vars == <<previous_values, current_interval, tpc, tloc, fpc, floc, writes,
          crashed, ntel, nflush, accepted, last, tin, tout>>

collectorVars == <<previous_values, current_interval, tpc, tloc, fpc, floc,
                   writes, crashed, ntel, nflush, accepted, last>>

tariffVars == <<tin, tout>>

NotCalled == <<>>

\* ------------------------------------------------------------------------
\* Configuration of the collector and the telegrams it can receive
\* ------------------------------------------------------------------------
\* config["houses"]: the registered meters and their houses.
\* Meters m1 and m3 belong to house 1, meter m2 to house 2.
HOUSE_CONFIG == [m \in {"m1", "m2", "m3"} |-> [id |-> IF m = "m2" THEN 2 ELSE 1]]

\* Topics telegrams arrive on: the registered meters and a foreign one.
Macs == {"m1", "m2", "mx"}

\* Sanity ceiling of process_message, 0.1 kWh, in units of 0.01 kWh.
MAX_DELTA == 10

\* The telegrams of the model: {"Ei": ..., "Eo": ...} in units of 0.01 kWh.
\* From one to another there are a zero import counter, plausible steps of
\* import only, of export only and of both, a backward step and a jump
\* beyond MAX_DELTA.
Payloads ==
    { [Ei |-> 0,   Eo |-> 50],
      [Ei |-> 100, Eo |-> 50],
      [Ei |-> 104, Eo |-> 50],
      [Ei |-> 104, Eo |-> 53],
      [Ei |-> 115, Eo |-> 53] }

\* msg.payload that json.loads cannot parse (it raises JSONDecodeError).
Unparseable == [raw |-> "{"]

\* msg.payload that parses to a JSON value without .get (a list, a number).
NonObject == [raw |-> "[]"]

\* A counter field that holds no number (a JSON string or null).
NonNumeric == -1

\* The telegrams of the serialized runs.  From a baseline (104, 53) the
\* reading (114, 53) is a step of exactly MAX_DELTA and (115, 64) a step of
\* MAX_DELTA + 1 on both counters; from (114, 53) the reading (115, 64)
\* exceeds on the export counter only, from (100, 47) the reading (114, 53)
\* on the import counter only; from (100, 47) to (104, 53) the export grows
\* more than the import.  Then an object without "Ei" (line 157 reads
\* it as 0) whose export counter is above (100, 47) by more than MAX_DELTA
\* and above (104, 53) by less, an object whose "Ei" is no number, a non-object and an
\* unparseable payload.
SeqPayloads ==
    { [Ei |-> 100, Eo |-> 47],
      [Ei |-> 104, Eo |-> 53],
      [Ei |-> 114, Eo |-> 53],
      [Ei |-> 115, Eo |-> 64],
      [Eo |-> 58],
      [Ei |-> NonNumeric, Eo |-> 50],
      NonObject,
      Unparseable }

\* Topics of the serialized runs: the two meters of house 1 and an
\* unregistered device (house 2 stays silent).
SeqMacs == {"m1", "m3", "mx"}

\* What os.path.exists / json.load find when the tariffs file is read.
NoFile == [p_pv |-> R(0), p_grid_con |-> R(0), p_grid_del |-> R(0)]
FileStates == {NoFile, [p_pv |-> R(28), p_grid_con |-> R(30), p_grid_del |-> R(6)]}

\* The policy taken from the defaults whatever the file holds.
load_base_tariffs_default(file) == DEFAULT_TARIFFS

\* load_base_tariffs: the file's policy if the file exists, else the default.
load_base_tariffs(file) == IF file = NoFile THEN DEFAULT_TARIFFS ELSE file

\* ------------------------------------------------------------------------
\* Helpers for the dict self.current_interval
\* ------------------------------------------------------------------------
Max(a, b) == IF a > b THEN a ELSE b

\* mac in self.current_interval
Has(ci, mac) == \E i \in 1..Len(ci) : ci[i].mac = mac

\* the position of self.current_interval[mac]
IndexOf(ci, mac) == CHOOSE i \in 1..Len(ci) : ci[i].mac = mac

RECURSIVE SumField(_, _)
\* the sum of an integer field over a sequence of records
SumField(seq, field) ==
    IF seq = <<>> THEN 0 ELSE seq[1][field] + SumField(Tail(seq), field)

TIdle == [mac |-> "", house_id |-> 0, ei |-> 0, eo |-> 0,
          delta_ei |-> 0, delta_eo |-> 0]

NoTariffs == [p_con |-> R(0), p_pv |-> R(0), p_grid_con |-> R(0), p_grid_del |-> R(0)]

\* at_write is no local of the code: it records the dict as it was when the
\* write call of line 266 started.
FIdle == [total_consumption |-> 0, total_production |-> 0,
          it |-> 0, it_size |-> 0, delta_ei |-> 0, delta_eo |-> 0, ei |-> 0,
          tariffs |-> NoTariffs, points |-> <<>>, at_write |-> <<>>]

\* ------------------------------------------------------------------------
\* Init: the collector after EnergyCollector() and client.loop_start()
\* ------------------------------------------------------------------------
CollectorInit ==
    /\ previous_values = [m \in {} |-> [Ei |-> 0, Eo |-> 0]]
    /\ current_interval = <<>>
    /\ tpc = "idle"
    /\ tloc = TIdle
    /\ fpc = "sleep"
    /\ floc = FIdle
    /\ writes = <<>>
    /\ crashed = "no"
    /\ ntel = 0
    /\ nflush = 0
    /\ accepted = [m \in DOMAIN HOUSE_CONFIG |-> <<0, 0>>]
    /\ last = [mac |-> "", prev |-> <<>>, outcome |-> "none"]

\* ------------------------------------------------------------------------
\* The paho network thread: on_message -> process_message
\* ------------------------------------------------------------------------
\* The new counter taken as the delta.
Delta_absolute(new, old) == Max(0, new)

\* The delta without the clamp at 0.
Delta_unclamped(new, old) == new - old

\* delta_ei = max(0, ei - prev["Ei"])
Delta(new, old) == Max(0, new - old)

\* The startup test without the zero sentinel.
IsStartup_absent(pv, mac) == mac \notin DOMAIN pv

\* line 162: no baseline yet, or the stored import counter is 0
IsStartup(pv, mac) == mac \notin DOMAIN pv \/ pv[mac].Ei = 0

\* The sanity check skipping a delta of exactly MAX_DELTA too.
Implausible_strict(delta_ei, delta_eo) == delta_ei >= MAX_DELTA \/ delta_eo >= MAX_DELTA

\* The sanity check looking at the import delta only.
Implausible_import(delta_ei, delta_eo) == delta_ei > MAX_DELTA

\* line 176: the sanity check that skips the sample
Implausible(delta_ei, delta_eo) == delta_ei > MAX_DELTA \/ delta_eo > MAX_DELTA

\* The baseline stored with its two counters exchanged.
SetBaseline_swapped(pv, mac, ei, eo) ==
    [m \in DOMAIN pv \cup {mac} |->
        IF m = mac THEN [Ei |-> eo, Eo |-> ei] ELSE pv[m]]

\* self.previous_values[mac] = {"Ei": ei, "Eo": eo}
SetBaseline(pv, mac, ei, eo) ==
    [m \in DOMAIN pv \cup {mac} |->
        IF m = mac THEN [Ei |-> ei, Eo |-> eo] ELSE pv[m]]

\* The lookup with a default of 1.
Get_one(payload, key) == IF key \in DOMAIN payload THEN payload[key] ELSE 1

\* payload.get(key, 0)
Get(payload, key) == IF key \in DOMAIN payload THEN payload[key] ELSE 0

\* ei - prev["Ei"] raises TypeError unless both operands are numbers
Numeric(x) == x # NonNumeric

\* The registry check letting every topic pass.
Registered_any(mac) == TRUE

\* Line 152: the registry check.
Registered(mac) == mac \in DOMAIN HOUSE_CONFIG

\* What lines 285-291 and 150-178 do with one telegram, given the baselines
\* pv: the new baselines, whether the sample goes on to line 180 (it passed
\* every check), and the values it carries there.  Every other way out is a
\* return or an exception caught by on_message: unparseable payload,
\* unregistered meter, payload without .get, startup baseline, TypeError of
\* lines 168-169 (raised before line 172), skipped delta.
apply(pv, mac, payload) ==
    LET rejected(newpv, how) ==
            [pv |-> newpv, accepted |-> FALSE, entry |-> TIdle, outcome |-> how]
    IN  IF payload = Unparseable THEN rejected(pv, "JSONDecodeError")
        ELSE IF ~Registered(mac) THEN rejected(pv, "unregistered")
        ELSE IF payload = NonObject THEN rejected(pv, "AttributeError")
        ELSE LET ei == Get(payload, "Ei")
                 eo == Get(payload, "Eo")
             IN  IF IsStartup(pv, mac)
                 THEN rejected(SetBaseline(pv, mac, ei, eo), "startup")
                 ELSE IF ~Numeric(ei) \/ ~Numeric(pv[mac].Ei)
                         \/ ~Numeric(eo) \/ ~Numeric(pv[mac].Eo)
                 THEN rejected(pv, "TypeError")
                 ELSE LET delta_ei == Delta(ei, pv[mac].Ei)
                          delta_eo == Delta(eo, pv[mac].Eo)
                      IN  IF Implausible(delta_ei, delta_eo)
                          THEN rejected(SetBaseline(pv, mac, ei, eo), "skipped")
                          ELSE [pv |-> SetBaseline(pv, mac, ei, eo),
                                accepted |-> TRUE,
                                outcome |-> "accepted",
                                entry |-> [mac |-> mac,
                                           house_id |-> HOUSE_CONFIG[mac].id,
                                           ei |-> ei, eo |-> eo,
                                           delta_ei |-> delta_ei,
                                           delta_eo |-> delta_eo]]

\* The history of accepted deltas after a telegram with outcome r.
Accept(acc, r) ==
    IF r.accepted
    THEN [acc EXCEPT ![r.entry.mac] = <<@[1] + r.entry.delta_ei,
                                        @[2] + r.entry.delta_eo>>]
    ELSE acc

\* The history of the latest telegram: its topic, the baseline it found
\* and its outcome r.
Last(pv, mac, r) ==
    [mac |-> mac,
     prev |-> IF mac \in DOMAIN pv THEN <<pv[mac]>> ELSE <<>>,
     outcome |-> r.outcome]

\* Lines 285-291 and 150-178 in the network thread.  This part reads and
\* writes only self.previous_values, which the main thread never touches, so
\* it is one step; an accepted sample goes on to line 180.
T_Receive(mac, payload) ==
    /\ crashed = "no"
    /\ tpc = "idle"
    /\ ntel < MaxTelegrams
    /\ ntel' = ntel + 1
    /\ LET r == apply(previous_values, mac, payload)
       IN  /\ previous_values' = r.pv
           /\ accepted' = Accept(accepted, r)
           /\ last' = Last(previous_values, mac, r)
           /\ tpc' = IF r.accepted THEN "line180" ELSE "idle"
           /\ tloc' = r.entry
    /\ UNCHANGED <<current_interval, fpc, floc, writes, crashed, nflush, tin, tout>>

\* Lines 180 and 186-192: the membership test, and for a meter without an
\* entry the insertion of a new one.  (The main thread only ever removes
\* entries, so a test that found no entry stays right until the insertion.)
T_Line180 ==
    /\ crashed = "no"
    /\ tpc = "line180"
    /\ IF Has(current_interval, tloc.mac)
       THEN /\ tpc' = "line181"
            /\ UNCHANGED <<current_interval, tloc>>
       ELSE /\ current_interval' = Append(current_interval, tloc)
            /\ tpc' = "idle"
            /\ tloc' = TIdle
    /\ UNCHANGED <<previous_values, fpc, floc, writes, crashed, ntel, nflush, accepted, last, tin, tout>>

\* One of the statements of lines 181-184 on the entry of tloc.mac:
\* self.current_interval[mac][field] = f(old value).  When the entry is gone
\* (the main thread cleared the dict after line 180) the subscript raises
\* KeyError, which on_message catches and logs (lines 290-291): the rest of
\* process_message is skipped.  (An augmented assignment loads the entry,
\* adds and stores; only this thread writes the fields, and a store into an
\* entry cleared in between is as lost as one that raised, so load and store
\* are one step.)
T_Update(at, next, field, value) ==
    /\ crashed = "no"
    /\ tpc = at
    /\ IF Has(current_interval, tloc.mac)
       THEN LET i == IndexOf(current_interval, tloc.mac)
            IN  /\ current_interval' =
                     [current_interval EXCEPT ![i][field] = value]
                /\ tpc' = next
                /\ tloc' = IF next = "idle" THEN TIdle ELSE tloc
       ELSE /\ tpc' = "idle"
            /\ tloc' = TIdle
            /\ UNCHANGED current_interval
    /\ UNCHANGED <<previous_values, fpc, floc, writes, crashed, ntel, nflush, accepted, last, tin, tout>>

\* The value the entry of tloc.mac holds in a field (0 when it has none).
Entry(field) ==
    IF Has(current_interval, tloc.mac)
    THEN current_interval[IndexOf(current_interval, tloc.mac)][field]
    ELSE 0

\* line 181: self.current_interval[mac]["delta_ei"] += delta_ei
T_Line181 == T_Update("line181", "line182", "delta_ei", Entry("delta_ei") + tloc.delta_ei)

\* line 182: self.current_interval[mac]["delta_eo"] += delta_eo
T_Line182 == T_Update("line182", "line183", "delta_eo", Entry("delta_eo") + tloc.delta_eo)

\* line 183: self.current_interval[mac]["ei"] = ei
T_Line183 == T_Update("line183", "line184", "ei", tloc.ei)

\* line 184: self.current_interval[mac]["eo"] = eo
T_Line184 == T_Update("line184", "idle", "eo", tloc.eo)

Telegram ==
    \/ \E mac \in Macs, payload \in Payloads : T_Receive(mac, payload)
    \/ T_Line180
    \/ T_Line181
    \/ T_Line182
    \/ T_Line183
    \/ T_Line184

\* ------------------------------------------------------------------------
\* The main thread: time.sleep(COLLECTOR_INTERVAL); store_interval_data()
\* ------------------------------------------------------------------------
\* next() of a dict iterator created when the dict held it_size entries and
\* advanced `it` times: the dict changed size ("RuntimeError: dictionary
\* changed size during iteration"), the iteration is over, or there is an item.
IterNext(ci, it, it_size) ==
    IF Len(ci) # it_size THEN "RuntimeError"
    ELSE IF it >= it_size THEN "StopIteration"
    ELSE "item"

\* lines 218-235: the house_energy point of one entry
HousePoint(mac, house_id, ei, eo, delta_ei, delta_eo, tariffs) ==
    [mac |-> mac, house_id |-> house_id, ei |-> ei, eo |-> eo,
     delta_ei |-> delta_ei, delta_eo |-> delta_eo,
     net_flow |-> delta_eo - delta_ei,
     value_consumption |-> RMul(R(delta_ei), tariffs.p_con),
     value_pv_delivery |-> RMul(R(delta_eo), tariffs.p_pv),
     p_con |-> tariffs.p_con, p_pv |-> tariffs.p_pv]

\* The community point with gross instead of net grid exchange.
CommunityPoint_gross(total_consumption, total_production, tariffs) ==
    [total_consumption |-> total_consumption,
     total_production |-> total_production,
     grid_import |-> total_consumption,
     grid_export |-> total_production,
     value_grid_import |-> RMul(R(total_consumption), tariffs.p_grid_con),
     value_grid_export |-> RMul(R(total_production), tariffs.p_grid_del),
     p_grid_con |-> tariffs.p_grid_con,
     p_grid_del |-> tariffs.p_grid_del]

\* lines 239-261: grid exchange and the community_energy point
CommunityPoint(total_consumption, total_production, tariffs) ==
    LET net_energy  == total_production - total_consumption
        grid_export == IF net_energy > 0 THEN net_energy ELSE 0
        grid_import == IF net_energy > 0 THEN 0 ELSE Abs(net_energy)
    IN  [total_consumption |-> total_consumption,
         total_production |-> total_production,
         grid_import |-> grid_import,
         grid_export |-> grid_export,
         value_grid_import |-> RMul(R(grid_import), tariffs.p_grid_con),
         value_grid_export |-> RMul(R(grid_export), tariffs.p_grid_del),
         p_grid_con |-> tariffs.p_grid_con,
         p_grid_del |-> tariffs.p_grid_del]

\* The exception leaves store_interval_data and the `while True` loop of
\* main, which catches KeyboardInterrupt only: the main thread ends and the
\* interpreter exits, taking the (daemon) network thread with it.
Crash(exc) ==
    /\ crashed' = exc
    /\ UNCHANGED <<previous_values, current_interval, tpc, tloc, fpc, floc,
                   writes, ntel, nflush, accepted, last, tin, tout>>

\* The timer expiry without the test of line 196: the call goes on to the
\* loops with an empty dict as well.
F_Timer_noguard ==
    /\ crashed = "no"
    /\ fpc = "sleep"
    /\ nflush < MaxFlushes
    /\ nflush' = nflush + 1
    /\ fpc' = "line203"
    /\ floc' = [FIdle EXCEPT !.it_size = Len(current_interval)]
    /\ UNCHANGED <<previous_values, current_interval, tpc, tloc, writes,
                   crashed, ntel, accepted, last, tin, tout>>

\* Lines 319-320 and 196-203: the timer expires; an empty dict ends the call,
\* otherwise the totals start at 0 and the first loop creates its iterator.
F_Timer ==
    /\ crashed = "no"
    /\ fpc = "sleep"
    /\ nflush < MaxFlushes
    /\ nflush' = nflush + 1
    /\ IF current_interval = <<>>
       THEN UNCHANGED <<fpc, floc>>
       ELSE /\ fpc' = "line203"
            /\ floc' = [FIdle EXCEPT !.it_size = Len(current_interval)]
    /\ UNCHANGED <<previous_values, current_interval, tpc, tloc, writes,
                   crashed, ntel, accepted, last, tin, tout>>

\* Lines 203-204: the first loop fetches its next entry and adds the entry's
\* delta_ei to total_consumption; when the entries are used up the loop ends.
F_Line203 ==
    /\ crashed = "no"
    /\ fpc = "line203"
    /\ LET n == IterNext(current_interval, floc.it, floc.it_size)
       IN  CASE n = "RuntimeError" -> Crash("RuntimeError")
             [] n = "StopIteration" ->
                  /\ fpc' = "line208"
                  /\ UNCHANGED <<previous_values, current_interval, tpc, tloc, floc,
                                 writes, crashed, ntel, nflush, accepted, last, tin, tout>>
             [] n = "item" ->
                  /\ fpc' = "line205"
                  /\ floc' = [floc EXCEPT
                                !.it = @ + 1,
                                !.total_consumption =
                                    @ + current_interval[floc.it + 1].delta_ei]
                  /\ UNCHANGED <<previous_values, current_interval, tpc, tloc,
                                 writes, crashed, ntel, nflush, accepted, last, tin, tout>>

\* Line 205: total_production += data["delta_eo"]
F_Line205 ==
    /\ crashed = "no"
    /\ fpc = "line205"
    /\ fpc' = "line203"
    /\ floc' = [floc EXCEPT
                  !.total_production = @ + current_interval[floc.it].delta_eo]
    /\ UNCHANGED <<previous_values, current_interval, tpc, tloc, writes,
                   crashed, ntel, nflush, accepted, last, tin, tout>>

\* Lines 208-214: the policy is read from the tariffs file (or the default),
\* the tariffs are computed from the totals, and the second loop creates its
\* iterator.
F_Line208 ==
    /\ crashed = "no"
    /\ fpc = "line208"
    /\ \E file \in FileStates :
         floc' = [floc EXCEPT
                    !.tariffs = calculate_breakeven_tariffs(
                                    floc.total_production, floc.total_consumption,
                                    load_base_tariffs(file)),
                    !.it = 0,
                    !.it_size = Len(current_interval)]
    /\ fpc' = "line214"
    /\ UNCHANGED <<previous_values, current_interval, tpc, tloc, writes,
                   crashed, ntel, nflush, accepted, last, tin, tout>>

\* Lines 214-215: the second loop fetches its next entry and reads its
\* delta_ei; when the entries are used up the community point is built
\* (lines 239-263) and the write of line 266 starts.
F_Line214 ==
    /\ crashed = "no"
    /\ fpc = "line214"
    /\ LET n == IterNext(current_interval, floc.it, floc.it_size)
       IN  CASE n = "RuntimeError" -> Crash("RuntimeError")
             [] n = "StopIteration" ->
                  /\ fpc' = "line266"
                  /\ floc' = [floc EXCEPT !.at_write = current_interval]
                  /\ UNCHANGED <<previous_values, current_interval, tpc, tloc,
                                 writes, crashed, ntel, nflush, accepted, last, tin, tout>>
             [] n = "item" ->
                  /\ fpc' = "line216"
                  /\ floc' = [floc EXCEPT
                                !.it = @ + 1,
                                !.delta_ei = current_interval[floc.it + 1].delta_ei]
                  /\ UNCHANGED <<previous_values, current_interval, tpc, tloc,
                                 writes, crashed, ntel, nflush, accepted, last, tin, tout>>

\* Line 216: delta_eo = data["delta_eo"]
F_Line216 ==
    /\ crashed = "no"
    /\ fpc = "line216"
    /\ fpc' = "line227"
    /\ floc' = [floc EXCEPT !.delta_eo = current_interval[floc.it].delta_eo]
    /\ UNCHANGED <<previous_values, current_interval, tpc, tloc, writes,
                   crashed, ntel, nflush, accepted, last, tin, tout>>

\* Line 227: data["ei"] is read for the point
F_Line227 ==
    /\ crashed = "no"
    /\ fpc = "line227"
    /\ fpc' = "line228"
    /\ floc' = [floc EXCEPT !.ei = current_interval[floc.it].ei]
    /\ UNCHANGED <<previous_values, current_interval, tpc, tloc, writes,
                   crashed, ntel, nflush, accepted, last, tin, tout>>

\* Lines 228-237: data["eo"] is read, the point is complete and appended
F_Line228 ==
    /\ crashed = "no"
    /\ fpc = "line228"
    /\ fpc' = "line214"
    /\ LET data == current_interval[floc.it]
       IN  floc' = [floc EXCEPT
                      !.points = Append(@, HousePoint(data.mac, data.house_id,
                                                      floc.ei, data.eo,
                                                      floc.delta_ei, floc.delta_eo,
                                                      floc.tariffs)),
                      !.delta_ei = 0, !.delta_eo = 0, !.ei = 0]
    /\ UNCHANGED <<previous_values, current_interval, tpc, tloc, writes,
                   crashed, ntel, nflush, accepted, last, tin, tout>>

\* The batch handed to write_api.write: the house points, then the community
\* point.
Batch(loc) ==
    [points |-> loc.points,
     community |-> CommunityPoint(loc.total_consumption, loc.total_production,
                                  loc.tariffs)]

\* Line 266, the write succeeds: the sink holds the batch.
F_WriteOk ==
    /\ crashed = "no"
    /\ fpc = "line266"
    /\ writes' = Append(writes, Batch(floc))
    /\ fpc' = "line273"
    /\ UNCHANGED <<previous_values, current_interval, tpc, tloc, floc,
                   crashed, ntel, nflush, accepted, last, tin, tout>>

\* Line 266, the write raises (InfluxDB unreachable, rejected request, ...).
F_WriteFail ==
    /\ crashed = "no"
    /\ fpc = "line266"
    /\ Crash("WriteError")

\* The end of the flush forgetting the baselines together with the dict.
F_Line273_reset ==
    /\ crashed = "no"
    /\ fpc = "line273"
    /\ current_interval' = <<>>
    /\ previous_values' = [m \in {} |-> [Ei |-> 0, Eo |-> 0]]
    /\ fpc' = "sleep"
    /\ floc' = FIdle
    /\ UNCHANGED <<tpc, tloc, writes, crashed, ntel, nflush,
                   accepted, last, tin, tout>>

\* Line 273: self.current_interval.clear(), and back to sleep.
F_Line273 ==
    /\ crashed = "no"
    /\ fpc = "line273"
    /\ current_interval' = <<>>
    /\ fpc' = "sleep"
    /\ floc' = FIdle
    /\ UNCHANGED <<previous_values, tpc, tloc, writes, crashed, ntel, nflush,
                   accepted, last, tin, tout>>

Flush ==
    \/ F_Timer
    \/ F_Line203
    \/ F_Line205
    \/ F_Line208
    \/ F_Line214
    \/ F_Line216
    \/ F_Line227
    \/ F_Line228
    \/ F_WriteOk
    \/ F_WriteFail
    \/ F_Line273

Init ==
    /\ CollectorInit
    /\ tin = [E |-> 0, I |-> 0, policy |-> DEFAULT_TARIFFS]
    /\ tout = NotCalled

Next == Telegram \/ Flush

Spec == Init /\ [][Next]_vars

\* ------------------------------------------------------------------------
\* Serialized runs: each handler runs from its first line to its last
\* before the other thread's handler starts (the timer does not expire
\* while a telegram is handled, no telegram arrives during a flush).
\* ------------------------------------------------------------------------
\* Lines 180-192 run without interruption: the entry of the meter is
\* updated in its four fields, or a new entry is inserted.
add(ci, entry) ==
    IF Has(ci, entry.mac)
    THEN [ci EXCEPT ![IndexOf(ci, entry.mac)] =
             [@ EXCEPT !.delta_ei = @ + entry.delta_ei,
                       !.delta_eo = @ + entry.delta_eo,
                       !.ei = entry.ei,
                       !.eo = entry.eo]]
    ELSE Append(ci, entry)

\* on_message -> process_message, from line 285 to its return.
ProcessMessage(mac, payload) ==
    /\ crashed = "no"
    /\ tpc = "idle" /\ fpc = "sleep"
    /\ ntel < MaxTelegrams
    /\ ntel' = ntel + 1
    /\ LET r == apply(previous_values, mac, payload)
       IN  /\ previous_values' = r.pv
           /\ accepted' = Accept(accepted, r)
           /\ last' = Last(previous_values, mac, r)
           /\ current_interval' = IF r.accepted
                                  THEN add(current_interval, r.entry)
                                  ELSE current_interval
    /\ UNCHANGED <<tpc, tloc, fpc, floc, writes, crashed, nflush, tin, tout>>

\* Lines 199-263 run without interruption on the dict ci, with the policy
\* read from `file`: the batch handed to the sink.
settle(ci, file) ==
    LET total_consumption == SumField(ci, "delta_ei")
        total_production  == SumField(ci, "delta_eo")
        tariffs == calculate_breakeven_tariffs(total_production, total_consumption,
                                               load_base_tariffs(file))
    IN  [points |-> [i \in 1..Len(ci) |->
                        HousePoint(ci[i].mac, ci[i].house_id, ci[i].ei, ci[i].eo,
                                   ci[i].delta_ei, ci[i].delta_eo, tariffs)],
         community |-> CommunityPoint(total_consumption, total_production, tariffs)]

\* store_interval_data from the timer expiry to its return, the write
\* succeeding or raising; an empty dict ends the call at line 197.  The
\* expiries need no bound here: every batch written takes an accepted
\* telegram, and the telegrams are bounded.
StoreIntervalData(file, ok) ==
    /\ crashed = "no"
    /\ tpc = "idle" /\ fpc = "sleep"
    /\ IF current_interval = <<>>
       THEN UNCHANGED <<current_interval, writes, crashed>>
       ELSE IF ok
       THEN /\ writes' = Append(writes, settle(current_interval, file))
            /\ current_interval' = <<>>
            /\ UNCHANGED crashed
       ELSE /\ crashed' = "WriteError"
            /\ UNCHANGED <<current_interval, writes>>
    /\ UNCHANGED <<previous_values, tpc, tloc, fpc, floc, ntel, nflush, accepted,
                   last, tin, tout>>

SeqNext ==
    \/ \E mac \in SeqMacs, payload \in SeqPayloads : ProcessMessage(mac, payload)
    \/ \E file \in FileStates, ok \in BOOLEAN : StoreIntervalData(file, ok)

SpecSeq == Init /\ [][SeqNext]_vars

\* Serialized runs with the flush taken line by line and the timer expiries
\* counted: a telegram is handled as a whole, and only while the main
\* thread sleeps.
TimerNext ==
    \/ \E mac \in Macs, payload \in Payloads : ProcessMessage(mac, payload)
    \/ Flush

SpecTimer == Init /\ [][TimerNext]_vars

\* ------------------------------------------------------------------------
\* Scenario runs: every meter sends the readings 0, 100.01 and 100.05 kWh of
\* its import counter in this order, the export counter staying at 0.50 kWh;
\* the telegrams of the meters and of the unregistered device and the timer
\* expiries come in any order.
\* ------------------------------------------------------------------------
ScenarioD ==
    << [Ei |-> 0,     Eo |-> 50],
       [Ei |-> 10001, Eo |-> 50],
       [Ei |-> 10005, Eo |-> 50] >>

\* The number of readings of the scenario the meter has sent: each reading
\* becomes the baseline (lines 163 and 172), so the baseline tells it.
Sent(pv, mac) ==
    IF mac \notin DOMAIN pv THEN 0
    ELSE CHOOSE k \in 1..Len(ScenarioD) : pv[mac] = ScenarioD[k]

\* The meter's next reading arrives and is handled.
D_Telegram(mac) ==
    /\ Sent(previous_values, mac) < Len(ScenarioD)
    /\ ProcessMessage(mac, ScenarioD[Sent(previous_values, mac) + 1])

DNext ==
    \/ \E mac \in Macs \cup SeqMacs : D_Telegram(mac)
    \/ \E file \in FileStates, ok \in BOOLEAN : StoreIntervalData(file, ok)

SpecD == Init /\ [][DNext]_vars

\* ------------------------------------------------------------------------
\* Monotone runs: every registered meter starts from a seed with a non-zero
\* import counter, and each later reading of a meter lies above the one
\* before by a step of at most MAX_DELTA in each counter; telegrams and
\* timer expiries come in any order.
\* ------------------------------------------------------------------------
\* The first reading of a meter (lines 157-158 of its first telegram).
SeedOf(mac) ==
    IF mac = "m1" THEN [Ei |-> 100, Eo |-> 47] ELSE [Ei |-> 7, Eo |-> 0]

\* The steps a counter takes between two readings: none, some, the ceiling.
MonoSteps == {0, 4, MAX_DELTA}

\* The meter's next reading arrives and is handled.
M_Telegram(mac) ==
    IF mac \notin DOMAIN previous_values
    THEN ProcessMessage(mac, SeedOf(mac))
    ELSE \E di \in MonoSteps, do \in MonoSteps :
             ProcessMessage(mac, [Ei |-> previous_values[mac].Ei + di,
                                  Eo |-> previous_values[mac].Eo + do])

\* The meters that send in these runs: one of each house.
MonoMacs == {"m1", "m2"}

MonoNext ==
    \/ \E mac \in MonoMacs : M_Telegram(mac)
    \/ \E file \in FileStates, ok \in BOOLEAN : StoreIntervalData(file, ok)

SpecMono == Init /\ [][MonoNext]_vars

\* ------------------------------------------------------------------------
\* Tariff harness: calculate_breakeven_tariffs applied to bounded inputs
\* ------------------------------------------------------------------------
TariffInputs == [E : 0..MaxEnergy, I : 0..MaxEnergy, policy : Policies]

TariffInit ==
    /\ tin \in TariffInputs
    /\ tout = NotCalled
    /\ CollectorInit

\* One call of the function on the chosen arguments.
TariffCompute ==
    /\ tout = NotCalled
    /\ tout' = <<calculate_breakeven_tariffs(tin.E, tin.I, tin.policy)>>
    /\ tin' = [tin EXCEPT !.policy = PolicyAfter(tin.E, tin.I, tin.policy)]
    /\ UNCHANGED collectorVars

\* The next interval brings new arguments.
TariffNewInput ==
    /\ tout # NotCalled
    /\ tin' \in TariffInputs
    /\ tout' = NotCalled
    /\ UNCHANGED collectorVars

TariffNext == TariffCompute \/ TariffNewInput

SpecTariff == TariffInit /\ [][TariffNext]_vars

\* ------------------------------------------------------------------------
\* Properties of calculate_breakeven_tariffs (checked under SpecTariff)
\* ------------------------------------------------------------------------
Called == tout # NotCalled

\* The candidate consumption price of the surplus regime,
\* p_gd + (E/I) * (p_pv - p_gd), for I > 0.
Candidate(E, I, policy) ==
    RAdd(policy.p_grid_del,
         RMul(Rat(E, I), RSub(policy.p_pv, policy.p_grid_del)))

Surplus == tin.I > 0 /\ tin.E >= tin.I
Deficit == tin.I > 0 /\ tin.E < tin.I
Capped == Surplus /\ RGt(Candidate(tin.E, tin.I, tin.policy), tin.policy.p_grid_con)

\* C6: for every E >= 0, I > 0 and policy the returned tariffs satisfy the
\* break-even identity of their regime in exact arithmetic:
\*   surplus uncapped  I*p_con + (E-I)*p_gd = E*pv_rate
\*   surplus capped    I*p_gc  + (E-I)*p_gd = E*pv_rate
\*   deficit           I*p_con = E*pv_rate + (I-E)*p_gc
C6_BreakEvenIdentities ==
    (Called /\ tin.I > 0) =>
        LET t  == tout[1]
            E  == tin.E
            I  == tin.I
            gc == tin.policy.p_grid_con
            gd == tin.policy.p_grid_del
        IN  /\ (Surplus /\ ~Capped) =>
                RAdd(RMul(R(I), t.p_con), RMul(R(E - I), gd)) = RMul(R(E), t.p_pv)
            /\ Capped =>
                RAdd(RMul(R(I), gc), RMul(R(E - I), gd)) = RMul(R(E), t.p_pv)
            /\ Deficit =>
                RMul(R(I), t.p_con) = RAdd(RMul(R(E), t.p_pv), RMul(R(I - E), gc))

\* A deficit interval with production has been priced.
C6_Witness == Called /\ Deficit /\ tin.E > 0 /\ tin.policy = DEFAULT_TARIFFS

ScenarioA == [E |-> 10, I |-> 8, policy |-> DEFAULT_TARIFFS]
ScenarioC == [E |-> 10, I |-> 2,
              policy |-> [p_pv |-> R(28), p_grid_con |-> R(30), p_grid_del |-> R(6)]]

\* C7: in the surplus regime (E >= I > 0) the consumption rate never exceeds
\* p_gc; when the candidate exceeds p_gc the rate is p_gc and the pv rate is
\* (I*p_gc + (E-I)*p_gd)/E, strictly below the policy p_pv; otherwise the rate
\* is the candidate and the pv rate the policy's.  Scenario C gives 30 and
\* 10.8, scenario A gives 23.5 and 20.
C7_SurplusCap ==
    (Called /\ Surplus) =>
        LET t    == tout[1]
            E    == tin.E
            I    == tin.I
            pol  == tin.policy
            cand == Candidate(E, I, pol)
        IN  /\ ~RGt(t.p_con, pol.p_grid_con)
            /\ RGt(cand, pol.p_grid_con) =>
                  /\ t.p_con = pol.p_grid_con
                  /\ t.p_pv = Rat(I * pol.p_grid_con[1] * pol.p_grid_del[2]
                                    + (E - I) * pol.p_grid_del[1] * pol.p_grid_con[2],
                                  E * pol.p_grid_con[2] * pol.p_grid_del[2])
                  /\ RLt(t.p_pv, pol.p_pv)
            /\ ~RGt(cand, pol.p_grid_con) =>
                  /\ t.p_con = cand
                  /\ t.p_pv = pol.p_pv
            /\ tin = ScenarioC => (t.p_con = R(30) /\ t.p_pv = Rat(108, 10))
            /\ tin = ScenarioA => (t.p_con = Rat(235, 10) /\ t.p_pv = R(20))

\* Scenario C (the capped surplus) has been priced.
C7_Witness == Called /\ tin = ScenarioC /\ Capped

\* C8 as stated: for every deficit input (0 <= E < I) and policy with
\* p_pv < p_gc the consumption rate lies strictly between p_pv and p_gc and
\* the pv rate is the policy's.
C8_DeficitStrictlyBetween ==
    (Called /\ Deficit /\ RLt(tin.policy.p_pv, tin.policy.p_grid_con)) =>
        LET t == tout[1]
        IN  /\ RLt(tin.policy.p_pv, t.p_con)
            /\ RLt(t.p_con, tin.policy.p_grid_con)
            /\ t.p_pv = tin.policy.p_pv

\* C8 amended: for every deficit input with production (0 < E < I) and
\* policy with p_pv < p_gc the consumption rate lies strictly between p_pv
\* and p_gc; without production (E = 0 < I) it equals p_gc; the pv rate is
\* the policy's in both cases.
C8_DeficitBetween ==
    (Called /\ Deficit /\ RLt(tin.policy.p_pv, tin.policy.p_grid_con)) =>
        LET t == tout[1]
        IN  /\ tin.E > 0 => /\ RLt(tin.policy.p_pv, t.p_con)
                            /\ RLt(t.p_con, tin.policy.p_grid_con)
            /\ tin.E = 0 => t.p_con = tin.policy.p_grid_con
            /\ t.p_pv = tin.policy.p_pv

\* A deficit interval with production and p_pv < p_gc has been priced.
C8_Witness ==
    Called /\ Deficit /\ tin.E = 1 /\ RLt(tin.policy.p_pv, tin.policy.p_grid_con)

\* C9: with total consumption I = 0 (any E >= 0) the call divides by nothing
\* (it raises no ZeroDivisionError) and returns consumption rate p_gc, the
\* policy's pv rate and the policy's grid rates.
C9_NoConsumptionDefaults ==
    (Called /\ tin.I = 0) =>
        tout[1] = [p_con |-> tin.policy.p_grid_con,
                   p_pv |-> tin.policy.p_pv,
                   p_grid_con |-> tin.policy.p_grid_con,
                   p_grid_del |-> tin.policy.p_grid_del]

\* An interval with production and no consumption has been priced.
C9_Witness == Called /\ tin.I = 0 /\ tin.E > 0

\* ------------------------------------------------------------------------
\* Properties of the two threads (checked under Spec)
\* ------------------------------------------------------------------------
RECURSIVE SumRat(_, _)
\* the sum of a rational field over a sequence of records
SumRat(seq, field) ==
    IF seq = <<>> THEN R(0) ELSE RAdd(seq[1][field], SumRat(Tail(seq), field))

\* the entries of a sequence of records that belong to one meter
OfMac(seq, mac) == SelectSeq(seq, LAMBDA e : e.mac = mac)

RECURSIVE WrittenSum(_, _, _)
\* what the written batches hold for one meter in one delta field
WrittenSum(ws, mac, field) ==
    IF ws = <<>> THEN 0
    ELSE SumField(OfMac(ws[1].points, mac), field) + WrittenSum(Tail(ws), mac, field)

Quiescent == crashed = "no" /\ tpc = "idle" /\ fpc = "sleep"

\* C1: with every write succeeding, every accepted delta is counted in
\* exactly one written batch: whenever no telegram and no flush is under way,
\* the deltas accepted for a meter equal what the written batches hold for it
\* plus what is still in the bucket (none lost, none counted twice).
C1_ExactlyOnce ==
    Quiescent =>
        \A m \in DOMAIN HOUSE_CONFIG :
            /\ accepted[m][1] = WrittenSum(writes, m, "delta_ei")
                                  + SumField(OfMac(current_interval, m), "delta_ei")
            /\ accepted[m][2] = WrittenSum(writes, m, "delta_eo")
                                  + SumField(OfMac(current_interval, m), "delta_eo")

\* C2: telegram handling and the flush are mutually exclusive: no telegram
\* is being applied to the bucket while a flush is between its first read of
\* the bucket and its clear.
C2_MutualExclusion ==
    crashed = "no" => (tpc = "idle" \/ fpc = "sleep")

\* C3: the snapshot is atomic: once the flush has read the bucket (from the
\* tariff computation to the end of the write) the bucket is empty, so that
\* a delta added later is neither in this flush's records nor removed by it.
C3_SnapshotAtomic ==
    (crashed = "no" /\ fpc \in {"line208", "line214", "line216", "line227",
                                "line228", "line266"})
        => current_interval = <<>>

\* C4: a failing sink write is never fatal: no write error ends the timer
\* loop.
C4_WriteFailureNotFatal == crashed # "WriteError"

\* C5: after a flush whose write failed the bucket is empty (the interval's
\* records are dropped, not kept for a later write).
C5_FailedIntervalDropped ==
    crashed = "WriteError" => current_interval = <<>>

\* C10: every written batch is cost-neutral: the sum of value_consumption
\* plus value_grid_export equals the sum of value_pv_delivery plus
\* value_grid_import.
C10_CostNeutral ==
    \A k \in 1..Len(writes) :
        RAdd(SumRat(writes[k].points, "value_consumption"),
             writes[k].community.value_grid_export)
          = RAdd(SumRat(writes[k].points, "value_pv_delivery"),
                 writes[k].community.value_grid_import)

\* ------------------------------------------------------------------------
\* The delta tracker (process_message up to line 178), serialized runs
\* ------------------------------------------------------------------------
\* The telegrams that are readings: JSON objects whose counters are numbers
\* (an absent counter reads as 0).
Readings ==
    { p \in SeqPayloads :
        /\ p \notin {Unparseable, NonObject}
        /\ Numeric(Get(p, "Ei")) /\ Numeric(Get(p, "Eo")) }

\* the pair (Ei, Eo) of a reading
Pair(p) == [Ei |-> Get(p, "Ei"), Eo |-> Get(p, "Eo")]

\* what the bucket holds for a meter on one counter
Bucket(ci, mac, field) == SumField(OfMac(ci, mac), field)

\* the meter has a baseline that is a pair of numbers with a non-zero
\* import counter
Seeded(mac) ==
    /\ mac \in DOMAIN previous_values
    /\ previous_values[mac].Ei # 0
    /\ Numeric(previous_values[mac].Ei) /\ Numeric(previous_values[mac].Eo)

\* the step is the handling of the telegram p on the topic of mac
Handled(mac, p) == last'.mac = mac /\ ProcessMessage(mac, p)

\* C11: the first reading processed for a registered meter becomes its
\* baseline (Ei, Eo), is not accepted and leaves the bucket as it was,
\* whatever its values.
C11_FirstReadingIsBaseline ==
    [][\A mac \in DOMAIN HOUSE_CONFIG, p \in Readings :
          (Handled(mac, p) /\ mac \notin DOMAIN previous_values)
          => /\ previous_values'[mac] = Pair(p)
             /\ current_interval' = current_interval
             /\ accepted' = accepted]_vars

\* A first reading with counters far from 0 has just been stored while the
\* bucket held another meter's entry.
C11_Witness ==
    /\ last.outcome = "startup" /\ last.prev = <<>>
    /\ previous_values[last.mac] = [Ei |-> 115, Eo |-> 64]
    /\ current_interval # <<>>

\* C12: a reading that finds a stored baseline with import counter 0 is a
\* seed: it replaces the baseline by (Ei, Eo), is not accepted and adds
\* nothing to the bucket, whatever the stored and the new export counters.
C12_ZeroBaselineIsSeed ==
    [][\A mac \in DOMAIN HOUSE_CONFIG, p \in Readings :
          (/\ Handled(mac, p)
           /\ mac \in DOMAIN previous_values
           /\ previous_values[mac].Ei = 0)
          => /\ previous_values'[mac] = Pair(p)
             /\ current_interval' = current_interval
             /\ accepted' = accepted]_vars

\* A reading has just replaced a baseline whose import counter was 0 and
\* whose export counter was not, by a baseline with a different export
\* counter.
C12_Witness ==
    /\ last.outcome = "startup" /\ last.prev # <<>>
    /\ last.prev[1].Ei = 0 /\ last.prev[1].Eo # 0
    /\ previous_values[last.mac].Ei # 0
    /\ previous_values[last.mac].Eo # last.prev[1].Eo

\* C13: after a reading (Ei, Eo) of a registered meter has been processed,
\* the stored baseline of the meter is (Ei, Eo), whether the sample was
\* accepted, taken as a seed or skipped as implausible.
C13_BaselineFollowsReading ==
    [][\A mac \in DOMAIN HOUSE_CONFIG, p \in Readings :
          Handled(mac, p) => previous_values'[mac] = Pair(p)]_vars

\* a raw difference, negative values taken as 0
Clamped(x) == IF x < 0 THEN 0 ELSE x

\* the reading p adds exactly di and do to what the bucket holds for mac
Added(mac, di, do) ==
    /\ Has(current_interval', mac)
    /\ Bucket(current_interval', mac, "delta_ei")
         = Bucket(current_interval, mac, "delta_ei") + di
    /\ Bucket(current_interval', mac, "delta_eo")
         = Bucket(current_interval, mac, "delta_eo") + do
    /\ accepted'[mac] = <<accepted[mac][1] + di, accepted[mac][2] + do>>

\* C14: for a seeded meter, a reading whose clamped import and export
\* deltas are both at most the ceiling (a delta equal to the ceiling
\* included) is accepted and its deltas are added to the bucket; a reading
\* with one of them above the ceiling leaves the bucket as it was.
C14_CeilingInclusive ==
    [][\A mac \in DOMAIN HOUSE_CONFIG, p \in Readings :
          (Handled(mac, p) /\ Seeded(mac))
          => LET di == Clamped(Pair(p).Ei - previous_values[mac].Ei)
                 do == Clamped(Pair(p).Eo - previous_values[mac].Eo)
             IN  IF di <= MAX_DELTA /\ do <= MAX_DELTA
                 THEN Added(mac, di, do)
                 ELSE current_interval' = current_interval]_vars

\* A reading whose import delta is exactly the ceiling has just been
\* accepted and is in the bucket with that delta.
C14_Witness ==
    /\ last.outcome = "accepted"
    /\ previous_values[last.mac].Ei - last.prev[1].Ei = MAX_DELTA
    /\ Has(current_interval, last.mac)
    /\ Bucket(current_interval, last.mac, "delta_ei") >= MAX_DELTA

\* C15: for a seeded meter, a counter that is lower than the stored baseline
\* gives a delta of exactly 0 on that channel, and the sample is accepted
\* and in the bucket, provided the delta of the other channel is within the
\* ceiling.
C15_NegativeClampsToZero ==
    [][\A mac \in DOMAIN HOUSE_CONFIG, p \in Readings :
          (Handled(mac, p) /\ Seeded(mac))
          => LET ri == Pair(p).Ei - previous_values[mac].Ei
                 ro == Pair(p).Eo - previous_values[mac].Eo
             IN  /\ (ri < 0 /\ ro <= MAX_DELTA) => Added(mac, 0, Clamped(ro))
                 /\ (ro < 0 /\ ri <= MAX_DELTA) => Added(mac, Clamped(ri), 0)]_vars

\* A reading with a lower import counter than the baseline has just been
\* accepted: the bucket holds the meter's entry, with nothing added.
C15_Witness ==
    /\ last.outcome = "accepted"
    /\ previous_values[last.mac].Ei < last.prev[1].Ei
    /\ Has(current_interval, last.mac)
    /\ Bucket(current_interval, last.mac, "delta_ei") = 0

\* C16: a reading of a seeded meter with the import delta or the export
\* delta above the ceiling is discarded as a whole: no entry of the bucket
\* changes, none is added.
C16_ImplausibleLeavesBucket ==
    [][\A mac \in DOMAIN HOUSE_CONFIG, p \in Readings :
          (/\ Handled(mac, p) /\ Seeded(mac)
           /\ \/ Pair(p).Ei - previous_values[mac].Ei > MAX_DELTA
              \/ Pair(p).Eo - previous_values[mac].Eo > MAX_DELTA)
          => /\ current_interval' = current_interval
             /\ accepted' = accepted]_vars

\* A reading above the ceiling on the export counter only has just been
\* skipped while the bucket held an entry of the same meter.
C16_Witness ==
    /\ last.outcome = "skipped"
    /\ previous_values[last.mac].Ei - last.prev[1].Ei <= MAX_DELTA
    /\ previous_values[last.mac].Eo - last.prev[1].Eo > MAX_DELTA
    /\ Has(current_interval, last.mac)

\* C17: a telegram on the topic of a device that is not in the registry
\* changes nothing: no baseline is created and the bucket is as it was,
\* whatever the payload.
C17_UnregisteredIgnored ==
    [][\A mac \in SeqMacs \ DOMAIN HOUSE_CONFIG, p \in SeqPayloads :
          Handled(mac, p)
          => /\ previous_values' = previous_values
             /\ current_interval' = current_interval
             /\ accepted' = accepted]_vars

\* A telegram of the unregistered device has just been handled while the
\* collector held baselines and a bucket entry.
C17_Witness ==
    /\ last.outcome = "unregistered" /\ last.mac \notin DOMAIN HOUSE_CONFIG
    /\ last.mac \notin DOMAIN previous_values
    /\ previous_values # << >>
    /\ current_interval # <<>>

\* C18: a malformed telegram (unparseable, not a JSON object, or with a
\* counter that is no number) is dropped: it changes neither the baselines
\* nor the bucket.
C18_MalformedDropped ==
    [][\A mac \in SeqMacs, p \in SeqPayloads \ Readings :
          Handled(mac, p)
          => /\ previous_values' = previous_values
             /\ current_interval' = current_interval]_vars

\* ------------------------------------------------------------------------
\* The flush (store_interval_data), serialized runs
\* ------------------------------------------------------------------------
\* C19: no written batch holds two house records of the same house.
C19_OneRecordPerHouse ==
    \A k \in 1..Len(writes) :
        \A i, j \in 1..Len(writes[k].points) :
            i # j => writes[k].points[i].house_id # writes[k].points[j].house_id

\* C20: in every written community record, with net = total_production -
\* total_consumption: net > 0 gives grid_export = net and grid_import = 0,
\* otherwise grid_import = |net| and grid_export = 0, so the two are never
\* both positive; and each value is the quantity times its grid rate.
C20_GridExchangeExclusive ==
    \A k \in 1..Len(writes) :
        LET c   == writes[k].community
            net == c.total_production - c.total_consumption
        IN  /\ ~(c.grid_import > 0 /\ c.grid_export > 0)
            /\ net > 0 => (c.grid_export = net /\ c.grid_import = 0)
            /\ net <= 0 => (c.grid_import = 0 - net /\ c.grid_export = 0)
            /\ c.value_grid_export = RMul(R(c.grid_export), c.p_grid_del)
            /\ c.value_grid_import = RMul(R(c.grid_import), c.p_grid_con)

\* An exporting interval and then an importing interval have been written.
C20_Witness ==
    /\ Len(writes) = 2
    /\ writes[1].community.grid_export > 0
    /\ writes[1].community.value_grid_export # R(0)
    /\ writes[2].community.grid_import > 0
    /\ writes[2].community.value_grid_import # R(0)

\* ------------------------------------------------------------------------
\* The bucket and the batches
\* ------------------------------------------------------------------------
\* C21: in every reachable state the deltas accumulated in the bucket are
\* at least 0 on both channels, and so are total_consumption and
\* total_production of every written community record, decreasing counters
\* included.
C21_DeltasNonNegative ==
    /\ \A i \in 1..Len(current_interval) :
          current_interval[i].delta_ei >= 0 /\ current_interval[i].delta_eo >= 0
    /\ \A k \in 1..Len(writes) :
          /\ writes[k].community.total_consumption >= 0
          /\ writes[k].community.total_production >= 0

\* A batch has been written, and a reading with both counters below the
\* baseline has just been accepted and is in the bucket.
C21_Witness ==
    /\ writes # <<>>
    /\ last.outcome = "accepted"
    /\ last.prev[1].Ei > previous_values[last.mac].Ei
    /\ last.prev[1].Eo > previous_values[last.mac].Eo
    /\ Has(current_interval, last.mac)

\* C22: in every written batch, total_consumption and total_production of
\* the community record are the sums of delta_ei and delta_eo over the
\* house records of the same batch.
C22_TotalsMatchRecords ==
    \A k \in 1..Len(writes) :
        /\ writes[k].community.total_consumption
             = SumField(writes[k].points, "delta_ei")
        /\ writes[k].community.total_production
             = SumField(writes[k].points, "delta_eo")

\* C23: a timer expiry that finds the bucket empty is a no-op: the call
\* returns at once (no tariffs read, no write started), and baselines,
\* bucket and written batches are as before.
C23_EmptyFlushNoOp ==
    [][(F_Timer /\ current_interval = <<>>)
       => /\ fpc' = "sleep" /\ floc' = floc
          /\ writes' = writes
          /\ previous_values' = previous_values
          /\ current_interval' = current_interval
          /\ crashed' = crashed]_vars

\* The timer has expired MaxFlushes times on an empty bucket while the
\* tracker held baselines: nothing was written and the collector runs.
C23_Witness ==
    /\ nflush = MaxFlushes
    /\ previous_values # << >>
    /\ writes = <<>> /\ current_interval = <<>>
    /\ Quiescent

\* C24: in the scenario runs (import counter 0, 100.01, 100.05 kWh, ceiling
\* 0.1 kWh) the first two readings of a meter are seeds: nothing of the
\* meter is in the bucket or in a batch until the third reading; the third
\* reading is accepted with a delta of 0.04 kWh of import and 0 of export,
\* which is what the bucket holds for the meter until the next flush and
\* what the record written by that flush holds.
C24_ScenarioD ==
    \A m \in DOMAIN HOUSE_CONFIG :
        LET sent == Sent(previous_values, m)
        IN  /\ sent < 3 =>
                 /\ ~Has(current_interval, m)
                 /\ \A k \in 1..Len(writes) : OfMac(writes[k].points, m) = <<>>
                 /\ accepted[m] = <<0, 0>>
            /\ sent = 3 =>
                 /\ accepted[m] = <<4, 0>>
                 /\ Has(current_interval, m) =>
                        /\ Bucket(current_interval, m, "delta_ei") = 4
                        /\ Bucket(current_interval, m, "delta_eo") = 0
                        /\ WrittenSum(writes, m, "delta_ei") = 0
                 /\ ~Has(current_interval, m) =>
                        /\ WrittenSum(writes, m, "delta_ei") = 4
                        /\ WrittenSum(writes, m, "delta_eo") = 0

\* Meter m1 alone has sent its three readings and the flush has written the
\* interval: one house record with 0.04 kWh of import, and a community
\* total of 0.04 kWh.
C24_Witness ==
    /\ DOMAIN previous_values = {"m1"}
    /\ Sent(previous_values, "m1") = 3
    /\ Len(writes) = 1
    /\ Len(writes[1].points) = 1
    /\ writes[1].points[1].mac = "m1"
    /\ writes[1].points[1].delta_ei = 4
    /\ writes[1].community.total_consumption = 4
    /\ current_interval = <<>>

\* C25: each flush of a non-empty bucket makes exactly one write call with
\* a complete batch: a flush that has started on a non-empty bucket is not
\* ended before its write call, there is never more than one written batch
\* per timer expiry, and when the bucket is cleared after the write the
\* batch just written holds a house record for every entry of the bucket.
C25_OneCompleteBatch ==
    /\ crashed # "RuntimeError"
    /\ Len(writes) <= nflush
    /\ fpc = "line273" =>
           \A i \in 1..Len(current_interval) :
               OfMac(writes[Len(writes)].points, current_interval[i].mac) # <<>>

\* C26: every flush that computes tariffs uses the policy that the tariffs
\* file holds at that flush (a changed file shows in the next batch), and
\* the default policy when there is no file; the flush then completes: the
\* batch is written with these tariffs and the bucket is cleared.
C26_PolicyReadEachCycle ==
    [][\A file \in FileStates :
         (StoreIntervalData(file, TRUE) /\ current_interval # <<>>) =>
             LET policy == IF file = NoFile THEN DEFAULT_TARIFFS ELSE file
                 t == calculate_breakeven_tariffs(
                          SumField(current_interval, "delta_eo"),
                          SumField(current_interval, "delta_ei"), policy)
                 b == writes'[Len(writes')]
             IN  /\ Len(writes') = Len(writes) + 1
                 /\ Len(b.points) = Len(current_interval)
                 /\ \A i \in 1..Len(b.points) :
                        b.points[i].p_pv = t.p_pv /\ b.points[i].p_con = t.p_con
                 /\ b.community.p_grid_con = policy.p_grid_con
                 /\ b.community.p_grid_del = policy.p_grid_del
                 /\ current_interval' = <<>>
                 /\ crashed' = "no"]_vars

\* Two flushes in a row, both with more consumption than production: the
\* first found no tariffs file and paid the default 20 for PV, the second
\* found the file and paid its 28.
C26_Witness ==
    /\ Len(writes) = 2
    /\ writes[1].community.total_production < writes[1].community.total_consumption
    /\ writes[2].community.total_production < writes[2].community.total_consumption
    /\ writes[1].points[1].p_pv = R(20)
    /\ writes[2].points[1].p_pv = R(28)

\* C27: a telegram is handled while the write of line 266 is in progress,
\* and the write does not corrupt the bucket: when the bucket was changed by
\* telegrams during the write, the end of the flush leaves what they added
\* in the bucket for the next flush.
C27_WriteKeepsLaterDeltas ==
    [][(fpc = "line273" /\ fpc' = "sleep" /\ current_interval # floc.at_write)
          => current_interval' # <<>>]_vars

\* A telegram went through all of its bucket update (lines 180-184) while
\* the write was in progress.
C27_HandledDuringWrite ==
    /\ fpc = "line266" /\ tpc = "idle" /\ crashed = "no"
    /\ current_interval # floc.at_write

\* C28 (as stated): a meter is seeded at most once: a reading of a meter
\* that already has a stored baseline is never taken as a seed.
C28_SeedOnlyOnce ==
    [][\A mac \in DOMAIN HOUSE_CONFIG, p \in Readings :
          (Handled(mac, p) /\ mac \in DOMAIN previous_values)
          => last'.outcome # "startup"]_vars

\* C28: a reading of a registered meter is taken as a seed exactly when the
\* meter has no stored baseline or the stored import counter is 0; a meter
\* is seeded by its first reading, and again by every reading that follows
\* one with an import counter of 0.
C28_SeedIffNoBaselineOrZero ==
    [][\A mac \in DOMAIN HOUSE_CONFIG, p \in Readings :
          Handled(mac, p)
          => (last'.outcome = "startup"
                <=> (\/ mac \notin DOMAIN previous_values
                     \/ previous_values[mac].Ei = 0))]_vars

\* A meter whose deltas had already been accepted has just been seeded
\* again.
C28_Witness ==
    /\ last.outcome = "startup" /\ last.prev # <<>>
    /\ last.mac \in DOMAIN HOUSE_CONFIG
    /\ accepted[last.mac] # <<0, 0>>

C30_AcceptedGetsWritten ==
    (Quiescent /\ current_interval = <<>>) =>
        \A m \in DOMAIN HOUSE_CONFIG :
            /\ accepted[m][1] <= WrittenSum(writes, m, "delta_ei")
            /\ accepted[m][2] <= WrittenSum(writes, m, "delta_eo")

\* ------------------------------------------------------------------------
\* The tracker over whole runs
\* ------------------------------------------------------------------------
\* C31: in the monotone runs the deltas accepted for a meter add up to the
\* meter's last reading minus its seed, for the import and for the export
\* counter, whatever the readings and wherever the flushes fall: nothing is
\* counted twice and nothing is skipped.
C31_DeltasTelescope ==
    \A m \in DOMAIN HOUSE_CONFIG :
        m \in DOMAIN previous_values =>
            /\ accepted[m][1] = previous_values[m].Ei - SeedOf(m).Ei
            /\ accepted[m][2] = previous_values[m].Eo - SeedOf(m).Eo

\* Meter m1 has gone up by the ceiling twice on its import counter, once
\* before and once after a written flush, and its export counter has moved
\* as well.
C31_Witness ==
    /\ "m1" \in DOMAIN previous_values
    /\ previous_values["m1"].Ei = SeedOf("m1").Ei + 2 * MAX_DELTA
    /\ previous_values["m1"].Eo > SeedOf("m1").Eo
    /\ Len(writes) = 1
    /\ Bucket(current_interval, "m1", "delta_ei") = MAX_DELTA

\* the record of the meter in the batch written last
LastRecord(mac) == OfMac(writes[Len(writes)].points, mac)[1]

WithoutEi == { p \in Readings : "Ei" \notin DOMAIN p }

\* C33: a telegram without "Ei" from a meter with a non-zero baseline is
\* handled as a reading with Ei = 0.  The baseline becomes (0, Eo); with an
\* export delta within the ceiling the sample is accepted and adds 0 to the
\* import and the export delta to the export of the meter's bucket entry,
\* otherwise it is skipped.  The reading of the meter that follows is a
\* seed: it becomes the baseline and adds nothing.
C33_MissingEiReadsAsZero ==
    [][\A mac \in DOMAIN HOUSE_CONFIG :
         /\ \A p \in WithoutEi :
              (Handled(mac, p) /\ Seeded(mac)) =>
                  LET delta_eo == Clamped(p.Eo - previous_values[mac].Eo)
                  IN  /\ previous_values'[mac] = [Ei |-> 0, Eo |-> p.Eo]
                      /\ IF delta_eo <= MAX_DELTA
                         THEN last'.outcome = "accepted" /\ Added(mac, 0, delta_eo)
                         ELSE /\ last'.outcome = "skipped"
                              /\ current_interval' = current_interval
                              /\ accepted' = accepted
         /\ \A p \in Readings :
              (/\ Handled(mac, p)
               /\ last.mac = mac /\ last.outcome \in {"accepted", "skipped"}
               /\ previous_values[mac].Ei = 0)
              => /\ last'.outcome = "startup"
                 /\ previous_values'[mac] = Pair(p)
                 /\ current_interval' = current_interval
                 /\ accepted' = accepted]_vars

\* A meter whose bucket entry holds an import delta sent a telegram without
\* "Ei", which was accepted, and its next reading, with an import counter
\* far above 0, has just been taken as a seed: the entry is as it was.
C33_Witness ==
    /\ last.outcome = "startup"
    /\ last.prev = <<[Ei |-> 0, Eo |-> 58]>>
    /\ previous_values[last.mac].Ei = 115
    /\ Bucket(current_interval, last.mac, "delta_ei") = 4
    /\ Bucket(current_interval, last.mac, "delta_eo") = 11
    /\ accepted[last.mac] = <<4, 11>>

====
